---- MODULE Spec2Model ----
(***************************************************************************)
(* Model of lib/shared/vdi.c of sheepdog-ng: the client side of a volume   *)
(* (VDI): the request queue behind sd_vdi_read/sd_vdi_write, the cluster   *)
(* lock behind sd_vdi_open/sd_vdi_close, and sd_vdi_snapshot.              *)
(*                                                                         *)
(* The specifications share the module, one per subsystem:                 *)
(*   SpecIO    callers of sd_vdi_read/sd_vdi_write and the dispatcher      *)
(*   SpecLock  sd_vdi_open / sd_vdi_close against the cluster's lock table *)
(*   SpecSnap  sd_vdi_snapshot against the cluster's inode table           *)
(*   SpecVol   sd_vdi_create, sd_vdi_clone and sd_vdi_snapshot together    *)
(* The variables of the other subsystems keep their initial values.        *)
(***************************************************************************)
EXTENDS Integers, Sequences, FiniteSets, TLC

(* ------------------------------------------------------------------ *)
(* Result codes (sheepdog_proto.h), kept symbolic.                     *)
(* ------------------------------------------------------------------ *)
SD_RES_SUCCESS == "SD_RES_SUCCESS"
SD_RES_EIO == "SD_RES_EIO"
SD_RES_SYSTEM_ERROR == "SD_RES_SYSTEM_ERROR"
SD_RES_INVALID_PARMS == "SD_RES_INVALID_PARMS"
SD_RES_NO_TAG == "SD_RES_NO_TAG"
SD_RES_NO_VDI == "SD_RES_NO_VDI"
SD_RES_VDI_LOCKED == "SD_RES_VDI_LOCKED"
SD_RES_VDI_NOT_LOCKED == "SD_RES_VDI_NOT_LOCKED"
SD_RES_NETWORK_ERROR == "SD_RES_NETWORK_ERROR"

NoRet == "none"

(* ================================================================== *)
(*  Part I: the request queue (sd_vdi_read / sd_vdi_write)            *)
(* ================================================================== *)

\* number of caller threads; each issues one sd_vdi_read or sd_vdi_write
NCallers == 3
Callers == 1..NCallers

\* results the dispatcher may store into a request
IoResults == {SD_RES_SUCCESS, SD_RES_EIO}

VARIABLES
    pc,            \* position of each caller thread inside sd_vdi_read/write
    req_state,     \* "none" | "live" | "freed": the caller's struct sd_request
    req_write,     \* req->write
    req_efd,       \* counter of the request's own eventfd (req->efd)
    req_ret,       \* req->ret
    retval,        \* what sd_vdi_read/write returned to the caller
    request_list,  \* c->request_list, head first
    request_lock,  \* c->request_lock: 0 free, else the caller holding it
    request_fd,    \* counter of the shared eventfd c->request_fd
    disp_events,   \* dispatcher: wake-up units read and not yet served
    inflight,      \* dispatcher: requests dequeued, result not yet stored
    tosignal,      \* dispatcher: requests with result stored, not yet signalled
    fired,         \* history: number of writes to each request's eventfd
    stored,        \* history: the result the dispatcher stored for each request
    notified,      \* history: number of writes to request_fd
    appended,      \* history: number of list_add_tail calls
    lock_order,    \* history: callers in the order they took the write lock
    took_empty,    \* history: the dispatcher served a wake-up on an empty list
    used_freed     \* history: the dispatcher touched a freed request

ioVars == <<pc, req_state, req_write, req_efd, req_ret, retval, request_list,
            request_lock, request_fd, disp_events, inflight, tosignal, fired,
            stored, notified, appended, lock_order, took_empty, used_freed>>

InitIO ==
    /\ pc = [c \in Callers |-> "idle"]
    /\ req_state = [c \in Callers |-> "none"]
    /\ req_write = [c \in Callers |-> FALSE]
    /\ req_efd = [c \in Callers |-> 0]
    /\ req_ret = [c \in Callers |-> SD_RES_SUCCESS]
    /\ retval = [c \in Callers |-> NoRet]
    /\ request_list = <<>>
    /\ request_lock = 0
    /\ request_fd = 0
    /\ disp_events = 0
    /\ inflight = {}
    /\ tosignal = {}
    /\ fired = [c \in Callers |-> 0]
    /\ stored = [c \in Callers |-> NoRet]
    /\ notified = 0
    /\ appended = 0
    /\ lock_order = <<>>
    /\ took_empty = FALSE
    /\ used_freed = FALSE

\* an alloc_request whose failure is noticed only after the enqueue and the
\* notification
alloc_request_enqueue_first(c, iswrite, fdok) ==
    /\ pc[c] = "idle"
    /\ IF fdok
         THEN /\ req_state' = [req_state EXCEPT ![c] = "live"]
              /\ req_write' = [req_write EXCEPT ![c] = iswrite]
              /\ req_efd' = [req_efd EXCEPT ![c] = 0]
              /\ req_ret' = [req_ret EXCEPT ![c] = SD_RES_SUCCESS]
              /\ pc' = [pc EXCEPT ![c] = "queue"]
              /\ UNCHANGED <<retval, request_list, request_fd, notified,
                             appended, lock_order>>
         ELSE /\ request_lock = 0
              /\ lock_order' = Append(lock_order, c)
              /\ request_list' = Append(request_list, c)
              /\ appended' = appended + 1
              /\ request_fd' = request_fd + 1
              /\ notified' = notified + 1
              /\ retval' = [retval EXCEPT ![c] = SD_RES_SYSTEM_ERROR]
              /\ pc' = [pc EXCEPT ![c] = "done"]
              /\ UNCHANGED <<req_state, req_write, req_efd, req_ret>>
    /\ UNCHANGED <<request_lock, disp_events, inflight, tosignal, fired,
                   stored, took_empty, used_freed>>

\* alloc_request: eventfd(0, 0) may fail; then errno = SD_RES_SYSTEM_ERROR and
\* the caller (sd_vdi_read/sd_vdi_write) returns errno at once.  Otherwise the
\* request is zero-allocated (req->ret = 0 = SD_RES_SUCCESS) and filled in.
alloc_request(c, iswrite, fdok) ==
    /\ pc[c] = "idle"
    /\ IF fdok
         THEN /\ req_state' = [req_state EXCEPT ![c] = "live"]
              /\ req_write' = [req_write EXCEPT ![c] = iswrite]
              /\ req_efd' = [req_efd EXCEPT ![c] = 0]
              /\ req_ret' = [req_ret EXCEPT ![c] = SD_RES_SUCCESS]
              /\ pc' = [pc EXCEPT ![c] = "queue"]
              /\ UNCHANGED retval
         ELSE /\ retval' = [retval EXCEPT ![c] = SD_RES_SYSTEM_ERROR]
              /\ pc' = [pc EXCEPT ![c] = "done"]
              /\ UNCHANGED <<req_state, req_write, req_efd, req_ret>>
    /\ UNCHANGED <<request_list, request_lock, request_fd, disp_events,
                   inflight, tosignal, fired, stored, notified, appended,
                   lock_order, took_empty, used_freed>>

\* sd_vdi_read, up to the call of queue_request
sd_vdi_read(c) == \E fdok \in BOOLEAN : alloc_request(c, FALSE, fdok)

\* sd_vdi_write, up to the call of queue_request
sd_vdi_write(c) == \E fdok \in BOOLEAN : alloc_request(c, TRUE, fdok)

\* queue_request: sd_write_lock(&c->request_lock)
sd_write_lock(c) ==
    /\ pc[c] = "queue"
    /\ request_lock = 0
    /\ request_lock' = c
    /\ lock_order' = Append(lock_order, c)
    /\ pc' = [pc EXCEPT ![c] = "locked"]
    /\ UNCHANGED <<req_state, req_write, req_efd, req_ret, retval, request_list,
                   request_fd, disp_events, inflight, tosignal, fired, stored,
                   notified, appended, took_empty, used_freed>>

\* a list_add in place of list_add_tail
list_add_head(c) ==
    /\ pc[c] = "locked"
    /\ request_lock = c
    /\ request_list' = <<c>> \o request_list
    /\ appended' = appended + 1
    /\ request_lock' = 0
    /\ pc' = [pc EXCEPT ![c] = "notify"]
    /\ UNCHANGED <<req_state, req_write, req_efd, req_ret, retval, request_fd,
                   disp_events, inflight, tosignal, fired, stored, notified,
                   lock_order, took_empty, used_freed>>

\* queue_request: list_add_tail(&req->list, &c->request_list);
\*                sd_rw_unlock(&c->request_lock)
list_add_tail(c) ==
    /\ pc[c] = "locked"
    /\ request_lock = c
    /\ request_list' = Append(request_list, c)
    /\ appended' = appended + 1
    /\ request_lock' = 0
    /\ pc' = [pc EXCEPT ![c] = "notify"]
    /\ UNCHANGED <<req_state, req_write, req_efd, req_ret, retval, request_fd,
                   disp_events, inflight, tosignal, fired, stored, notified,
                   lock_order, took_empty, used_freed>>

\* a notification worth two wake-up units
eventfd_xwrite_twice(c) ==
    /\ pc[c] = "notify"
    /\ request_fd' = request_fd + 2
    /\ notified' = notified + 2
    /\ pc' = [pc EXCEPT ![c] = "wait"]
    /\ UNCHANGED <<req_state, req_write, req_efd, req_ret, retval, request_list,
                   request_lock, disp_events, inflight, tosignal, fired, stored,
                   appended, lock_order, took_empty, used_freed>>

\* a queue_request that does not notify the dispatcher
eventfd_xwrite_skipped(c) ==
    /\ pc[c] = "notify"
    /\ pc' = [pc EXCEPT ![c] = "wait"]
    /\ UNCHANGED <<req_state, req_write, req_efd, req_ret, retval, request_list,
                   request_lock, request_fd, disp_events, inflight, tosignal,
                   fired, stored, notified, appended, lock_order, took_empty,
                   used_freed>>

\* queue_request: eventfd_xwrite(c->request_fd, 1)
eventfd_xwrite_request_fd(c) ==
    /\ pc[c] = "notify"
    /\ request_fd' = request_fd + 1
    /\ notified' = notified + 1
    /\ pc' = [pc EXCEPT ![c] = "wait"]
    /\ UNCHANGED <<req_state, req_write, req_efd, req_ret, retval, request_list,
                   request_lock, disp_events, inflight, tosignal, fired, stored,
                   appended, lock_order, took_empty, used_freed>>

\* the caller suspends on whichever completion signal fires first and takes
\* the result of that request, not of its own
wait_any_return(c) ==
    /\ pc[c] = "wait"
    /\ \E r \in Callers :
          /\ req_efd[r] > 0
          /\ req_efd' = [req_efd EXCEPT ![r] = 0]
          /\ retval' = [retval EXCEPT ![c] = req_ret[r]]
    /\ req_state' = [req_state EXCEPT ![c] = "freed"]
    /\ pc' = [pc EXCEPT ![c] = "done"]
    /\ UNCHANGED <<req_write, req_ret, request_list, request_lock, request_fd,
                   disp_events, inflight, tosignal, fired, stored, notified,
                   appended, lock_order, took_empty, used_freed>>

\* a return that does not wait for the request's signal
eventfd_xread_nonblocking(c) ==
    /\ pc[c] = "wait"
    /\ req_efd' = [req_efd EXCEPT ![c] = 0]
    /\ retval' = [retval EXCEPT ![c] = req_ret[c]]
    /\ req_state' = [req_state EXCEPT ![c] = "freed"]
    /\ pc' = [pc EXCEPT ![c] = "done"]
    /\ UNCHANGED <<req_write, req_ret, request_list, request_lock, request_fd,
                   disp_events, inflight, tosignal, fired, stored, notified,
                   appended, lock_order, took_empty, used_freed>>

\* sd_vdi_read/sd_vdi_write after queue_request:
\*   eventfd_xread(req->efd)  blocks until the counter is non-zero, resets it
\*   ret = req->ret; free_request(req); return ret
eventfd_xread_return(c) ==
    /\ pc[c] = "wait"
    /\ req_efd[c] > 0
    /\ req_efd' = [req_efd EXCEPT ![c] = 0]
    /\ retval' = [retval EXCEPT ![c] = req_ret[c]]
    /\ req_state' = [req_state EXCEPT ![c] = "freed"]
    /\ pc' = [pc EXCEPT ![c] = "done"]
    /\ UNCHANGED <<req_write, req_ret, request_list, request_lock, request_fd,
                   disp_events, inflight, tosignal, fired, stored, notified,
                   appended, lock_order, took_empty, used_freed>>

(* ------------------------------------------------------------------ *)
(* The dispatcher (external to vdi.c): woken through request_fd, it    *)
(* takes one request from the head of the list per wake-up unit,       *)
(* executes it, stores the result and fires the request's signal.      *)
(* ------------------------------------------------------------------ *)

\* eventfd_xread(c->request_fd): blocks until non-zero, returns and resets it
DispWake ==
    /\ disp_events = 0
    /\ request_fd > 0
    /\ disp_events' = request_fd
    /\ request_fd' = 0
    /\ UNCHANGED <<pc, req_state, req_write, req_efd, req_ret, retval,
                   request_list, request_lock, inflight, tosignal, fired,
                   stored, notified, appended, lock_order, took_empty,
                   used_freed>>

\* one wake-up unit: under the write lock, unlink the first request
DispTake ==
    /\ disp_events > 0
    /\ request_lock = 0
    /\ disp_events' = disp_events - 1
    /\ IF request_list = <<>>
         THEN /\ took_empty' = TRUE
              /\ UNCHANGED <<request_list, inflight>>
         ELSE /\ request_list' = Tail(request_list)
              /\ inflight' = inflight \cup {Head(request_list)}
              /\ UNCHANGED took_empty
    /\ UNCHANGED <<pc, req_state, req_write, req_efd, req_ret, retval,
                   request_lock, request_fd, tosignal, fired, stored, notified,
                   appended, lock_order, used_freed>>

\* the transport call is done: req->ret = result
DispStore(r, res) ==
    /\ r \in inflight
    /\ inflight' = inflight \ {r}
    /\ tosignal' = tosignal \cup {r}
    /\ req_ret' = [req_ret EXCEPT ![r] = res]
    /\ stored' = [stored EXCEPT ![r] = res]
    /\ used_freed' = (used_freed \/ req_state[r] = "freed")
    /\ UNCHANGED <<pc, req_state, req_write, req_efd, retval, request_list,
                   request_lock, request_fd, disp_events, fired, notified,
                   appended, lock_order, took_empty>>

\* eventfd_xwrite(req->efd, 1), once per dequeued request
DispSignal(r) ==
    /\ r \in tosignal
    /\ tosignal' = tosignal \ {r}
    /\ req_efd' = [req_efd EXCEPT ![r] = req_efd[r] + 1]
    /\ fired' = [fired EXCEPT ![r] = fired[r] + 1]
    /\ used_freed' = (used_freed \/ req_state[r] = "freed")
    /\ UNCHANGED <<pc, req_state, req_write, req_ret, retval, request_list,
                   request_lock, request_fd, disp_events, inflight, stored,
                   notified, appended, lock_order, took_empty>>


(* ------------------------------------------------------------------ *)
(* Claims about the request queue                                      *)
(* ------------------------------------------------------------------ *)

\* the caller's request has left the pending list
Dequeued(r) == r \in inflight \/ r \in tosignal \/ fired[r] > 0

\* the caller is inside queue_request
Enqueueing(c) == pc[c] \in {"queue", "locked", "notify"}

\* C1: every request's completion signal fires at most once, exactly once by
\* the time its caller has returned, and the value the caller returns is the
\* result the dispatcher stored for that caller's own request.
C1_OwnResultOnce ==
    \A c \in Callers :
        /\ fired[c] <= 1
        /\ (pc[c] = "done" /\ req_state[c] = "freed") =>
              /\ fired[c] = 1
              /\ stored[c] # NoRet
              /\ retval[c] = stored[c]
              /\ req_efd[c] = 0

\* two callers have returned, with different results
C1_Witness ==
    \E c1, c2 \in Callers :
        /\ pc[c1] = "done" /\ req_state[c1] = "freed"
        /\ pc[c2] = "done" /\ req_state[c2] = "freed"
        /\ retval[c1] = SD_RES_SUCCESS
        /\ retval[c2] = SD_RES_EIO

\* C2: request_fd is notified once per request and only after the append:
\* notifications never exceed appends, the two are equal when no caller is
\* inside queue_request, and the dispatcher never holds more wake-up units
\* than there are requests in the list (it never finds the list empty).
C2_NotifyAfterAppend ==
    /\ notified <= appended
    /\ ((\A c \in Callers : ~Enqueueing(c)) => notified = appended)
    /\ disp_events + request_fd <= Len(request_list)
    /\ ~took_empty

\* the dispatcher was woken once for two requests, both are in the list
C2_Witness ==
    /\ disp_events = 2
    /\ Len(request_list) >= 2
    /\ notified = appended

\* C3: the pending list is exactly the requests whose append is done and that
\* the dispatcher has not taken, in the order in which their callers took the
\* write lock: nothing is removed, reordered or duplicated by an enqueue.
C3_Fifo ==
    request_list =
        SelectSeq(lock_order, LAMBDA r : pc[r] # "locked" /\ ~Dequeued(r))

\* two requests are pending, enqueued against the order of the caller ids
C3_Witness ==
    /\ Len(request_list) >= 2
    /\ request_list[1] > request_list[2]

(* ================================================================== *)
(*  Part II: the cluster lock (sd_vdi_open / sd_vdi_close)             *)
(* ================================================================== *)

\* handles: each is one sd_vdi_open call of its own client
NHandles == 2
Handles == 1..NHandles

\* volume identities the cluster knows; a volume's name is written as its
\* identity, and name 0 is a name the cluster does not know
NVols == 2
Vids == 1..NVols
Names == 0..NVols

\* how often a caller retries sd_vdi_close after a failure
MaxCloseTries == 2

\* the inode of an even identity is marked as a snapshot
InodeKind(v) == IF v % 2 = 0 THEN "snap" ELSE "head"

VARIABLES
    hpc,          \* position of each handle: idle, locked, out_unlock, open,
                  \* failed (open returned NULL), closed (close returned 0)
    h_mem,        \* "none" | "live" | "freed": the struct sd_vdi and its inode
    h_name,       \* vdi->name
    h_vid,        \* vdi->vid (0 after xzalloc)
    h_inode,      \* vdi->inode: "uninit" (xmalloc) | "head" | "snap"
    h_errno,      \* errno as sd_vdi_open left it
    h_ret,        \* what the last sd_vdi_close returned
    n_close,      \* number of sd_vdi_close calls on the handle
    lock_holder,  \* cluster: the handle holding each volume's lock, 0 if free
    granted,      \* history: the cluster granted this handle the lock
    lock_res,     \* history: the cluster's answer to the lock request
    fetch,        \* history: "none" | "head" | "snap" | "fail", the inode fetch
    rel_vids,     \* history: identities named in the handle's release requests
    rel_count,    \* history: number of release requests the handle issued
    close_rel     \* history: "none" | "ok" | "fail", the last close's release

lockVars == <<hpc, h_mem, h_name, h_vid, h_inode, h_errno, h_ret, n_close,
              lock_holder, granted, lock_res, fetch, rel_vids, rel_count,
              close_rel>>

InitLock ==
    /\ hpc = [h \in Handles |-> "idle"]
    /\ h_mem = [h \in Handles |-> "none"]
    /\ h_name = [h \in Handles |-> 0]
    /\ h_vid = [h \in Handles |-> 0]
    /\ h_inode = [h \in Handles |-> "uninit"]
    /\ h_errno = [h \in Handles |-> NoRet]
    /\ h_ret = [h \in Handles |-> NoRet]
    /\ n_close = [h \in Handles |-> 0]
    /\ lock_holder = [v \in Vids |-> 0]
    /\ granted = [h \in Handles |-> FALSE]
    /\ lock_res = [h \in Handles |-> NoRet]
    /\ fetch = [h \in Handles |-> "none"]
    /\ rel_vids = [h \in Handles |-> {}]
    /\ rel_count = [h \in Handles |-> 0]
    /\ close_rel = [h \in Handles |-> "none"]

(* ------------------------------------------------------------------ *)
(* sd_run_sdreq and the cluster behind it: a transport-level result    *)
(* (ret) and, inside a delivered call, the operation-level result of   *)
(* the response (result) with its fields.                              *)
(* ------------------------------------------------------------------ *)

\* a call that was not delivered: no response, no effect on the cluster
TransportFailure ==
    [ret |-> SD_RES_NETWORK_ERROR, result |-> NoRet, vdi_id |-> 0,
     effect |-> FALSE, kind |-> "none"]

\* SD_OP_LOCK_VDI for a name, sent by handle h
LockResponses(h, name) ==
    {TransportFailure} \cup
    (IF name \notin Vids
       THEN {[ret |-> SD_RES_SUCCESS, result |-> SD_RES_NO_VDI, vdi_id |-> 0,
              effect |-> FALSE, kind |-> "none"]}
     ELSE IF lock_holder[name] = 0
       THEN {[ret |-> SD_RES_SUCCESS, result |-> SD_RES_SUCCESS,
              vdi_id |-> name, effect |-> TRUE, kind |-> "none"]}
       ELSE {[ret |-> SD_RES_SUCCESS, result |-> SD_RES_VDI_LOCKED,
              vdi_id |-> v, effect |-> FALSE, kind |-> "none"] :
                 v \in {0, name}})

\* SD_OP_RELEASE_VDI for an identity, sent by handle h
ReleaseResponses(h, vid) ==
    {TransportFailure,
     [ret |-> SD_RES_SUCCESS, result |-> SD_RES_EIO, vdi_id |-> 0,
      effect |-> FALSE, kind |-> "none"]} \cup
    (IF vid \in Vids /\ lock_holder[vid] = h
       THEN {[ret |-> SD_RES_SUCCESS, result |-> SD_RES_SUCCESS, vdi_id |-> 0,
              effect |-> TRUE, kind |-> "none"]}
       ELSE {[ret |-> SD_RES_SUCCESS, result |-> SD_RES_VDI_NOT_LOCKED,
              vdi_id |-> 0, effect |-> FALSE, kind |-> "none"]})

\* SD_OP_READ_OBJ of the header object of an identity
InodeResponses(vid) ==
    {TransportFailure,
     [ret |-> SD_RES_SUCCESS, result |-> SD_RES_EIO, vdi_id |-> 0,
      effect |-> FALSE, kind |-> "none"]} \cup
    (IF vid \in Vids
       THEN {[ret |-> SD_RES_SUCCESS, result |-> SD_RES_SUCCESS, vdi_id |-> 0,
              effect |-> FALSE, kind |-> InodeKind(vid)]}
       ELSE {})

\* both stages of a call succeeded
Succeeded(rsp) == rsp.ret = SD_RES_SUCCESS /\ rsp.result = SD_RES_SUCCESS

\* the cluster's lock table after a release request answered by rsp
Released(vid, rsp) ==
    IF rsp.effect THEN [lock_holder EXCEPT ![vid] = 0] ELSE lock_holder

\* lock_vdi: the value it returns; only the transport-level result is looked at
lock_vdi(rsp) ==
    IF rsp.ret # SD_RES_SUCCESS THEN rsp.ret ELSE SD_RES_SUCCESS

\* unlock_vdi: the value it returns; only the transport-level result is
\* looked at
unlock_vdi(rsp) ==
    IF rsp.ret # SD_RES_SUCCESS THEN rsp.ret ELSE SD_RES_SUCCESS

\* sd_vdi_open: alloc_vdi, then lock_vdi; on failure errno = ret, out_free
sd_vdi_open_lock(h, name, rsp) ==
    /\ hpc[h] = "idle"
    /\ h_name' = [h_name EXCEPT ![h] = name]
    /\ h_inode' = [h_inode EXCEPT ![h] = "uninit"]
    /\ lock_holder' = IF rsp.effect THEN [lock_holder EXCEPT ![name] = h]
                                    ELSE lock_holder
    /\ granted' = [granted EXCEPT ![h] = rsp.effect]
    /\ lock_res' = [lock_res EXCEPT ![h] =
                       IF rsp.ret = SD_RES_SUCCESS THEN rsp.result ELSE rsp.ret]
    /\ IF lock_vdi(rsp) # SD_RES_SUCCESS
         THEN /\ h_errno' = [h_errno EXCEPT ![h] = lock_vdi(rsp)]
              /\ h_mem' = [h_mem EXCEPT ![h] = "freed"]
              /\ hpc' = [hpc EXCEPT ![h] = "failed"]
              /\ UNCHANGED h_vid
         ELSE /\ h_vid' = [h_vid EXCEPT ![h] = rsp.vdi_id]
              /\ h_mem' = [h_mem EXCEPT ![h] = "live"]
              /\ hpc' = [hpc EXCEPT ![h] = "locked"]
              /\ UNCHANGED h_errno
    /\ UNCHANGED <<h_ret, n_close, fetch, rel_vids, rel_count, close_rel>>

\* sd_vdi_open: SD_OP_READ_OBJ of the inode into new->inode, then
\* vdi_is_snapshot(new->inode).  Only the transport-level result is looked
\* at; when the read did not fill the buffer, vdi_is_snapshot reads the
\* xmalloc'ed, uninitialized inode: either answer (junk) is possible.
sd_vdi_open_fetch(h, rsp, junk) ==
    /\ hpc[h] = "locked"
    /\ fetch' = [fetch EXCEPT ![h] =
                    IF Succeeded(rsp) THEN rsp.kind ELSE "fail"]
    /\ IF rsp.ret # SD_RES_SUCCESS
         THEN /\ h_errno' = [h_errno EXCEPT ![h] = rsp.ret]
              /\ hpc' = [hpc EXCEPT ![h] = "out_unlock"]
              /\ UNCHANGED h_inode
         ELSE LET inode == IF rsp.result = SD_RES_SUCCESS THEN rsp.kind
                                                          ELSE junk
              IN /\ h_inode' = [h_inode EXCEPT ![h] =
                       IF rsp.result = SD_RES_SUCCESS THEN rsp.kind
                                                      ELSE "uninit"]
                 /\ IF inode = "snap"
                      THEN /\ h_errno' = [h_errno EXCEPT ![h] =
                                             SD_RES_INVALID_PARMS]
                           /\ hpc' = [hpc EXCEPT ![h] = "out_unlock"]
                      ELSE /\ hpc' = [hpc EXCEPT ![h] = "open"]
                           /\ UNCHANGED h_errno
    /\ UNCHANGED <<h_mem, h_name, h_vid, h_ret, n_close, lock_holder, granted,
                   lock_res, rel_vids, rel_count, close_rel>>

\* sd_vdi_open, out_unlock: unlock_vdi(new), its result dropped; free_vdi(new);
\* return NULL
sd_vdi_open_unlock(h, rsp) ==
    /\ hpc[h] = "out_unlock"
    /\ lock_holder' = Released(h_vid[h], rsp)
    /\ rel_vids' = [rel_vids EXCEPT ![h] = rel_vids[h] \cup {h_vid[h]}]
    /\ rel_count' = [rel_count EXCEPT ![h] = rel_count[h] + 1]
    /\ h_mem' = [h_mem EXCEPT ![h] = "freed"]
    /\ hpc' = [hpc EXCEPT ![h] = "failed"]
    /\ UNCHANGED <<h_name, h_vid, h_inode, h_errno, h_ret, n_close, granted,
                   lock_res, fetch, close_rel>>

\* sd_vdi_close: unlock_vdi; on failure return ret with the handle untouched,
\* else free_vdi and return 0
sd_vdi_close(h, rsp) ==
    /\ hpc[h] = "open"
    /\ n_close[h] < MaxCloseTries
    /\ n_close' = [n_close EXCEPT ![h] = n_close[h] + 1]
    /\ lock_holder' = Released(h_vid[h], rsp)
    /\ rel_vids' = [rel_vids EXCEPT ![h] = rel_vids[h] \cup {h_vid[h]}]
    /\ rel_count' = [rel_count EXCEPT ![h] = rel_count[h] + 1]
    /\ close_rel' = [close_rel EXCEPT ![h] =
                        IF Succeeded(rsp) THEN "ok" ELSE "fail"]
    /\ IF unlock_vdi(rsp) # SD_RES_SUCCESS
         THEN /\ h_ret' = [h_ret EXCEPT ![h] = unlock_vdi(rsp)]
              /\ UNCHANGED <<hpc, h_mem>>
         ELSE /\ h_ret' = [h_ret EXCEPT ![h] = SD_RES_SUCCESS]
              /\ h_mem' = [h_mem EXCEPT ![h] = "freed"]
              /\ hpc' = [hpc EXCEPT ![h] = "closed"]
    /\ UNCHANGED <<h_name, h_vid, h_inode, h_errno, granted, lock_res, fetch>>


(* ------------------------------------------------------------------ *)
(* Claims about open and close                                         *)
(* ------------------------------------------------------------------ *)

\* the handle was returned by sd_vdi_open and not yet freed by sd_vdi_close
Live(h) == hpc[h] = "open"

\* C4: a live handle holds the cluster lock of its volume, no two live
\* handles are open on one volume, and an open that the cluster refuses
\* because the volume is locked returns no handle, with the cluster's error.
C4_ExclusiveAccess ==
    /\ \A h \in Handles :
          Live(h) => h_vid[h] \in Vids /\ lock_holder[h_vid[h]] = h
    /\ \A h1, h2 \in Handles :
          (h1 # h2 /\ Live(h1) /\ Live(h2)) => h_name[h1] # h_name[h2]
    /\ \A h \in Handles :
          lock_res[h] = SD_RES_VDI_LOCKED =>
              (hpc[h] = "failed" /\ h_errno[h] = SD_RES_VDI_LOCKED)

\* C5: sd_vdi_open returns a handle only when the lock was acquired and a
\* non-snapshot inode was fetched; when the fetch failed or the inode is a
\* snapshot it has issued one release request for the identity it acquired,
\* freed the handle and returned no handle.
C5_OpenRollsBack ==
    \A h \in Handles :
        /\ hpc[h] \in {"open", "closed"} => (granted[h] /\ fetch[h] = "head")
        /\ (fetch[h] \in {"fail", "snap"}) => hpc[h] \in {"out_unlock", "failed"}
        /\ (fetch[h] \in {"fail", "snap"} /\ hpc[h] = "failed") =>
              /\ rel_count[h] = 1
              /\ rel_vids[h] = {h_vid[h]}
              /\ h_mem[h] = "freed"

\* C6: every sd_vdi_close of a handle that sd_vdi_open returned after a
\* granted lock and a fetched head inode issues one release request for the
\* handle's identity; after a failed release the close has returned an error and the
\* handle is intact; the handle is freed, with return value 0, only after a
\* release that succeeded.
C6_CloseKeepsHandleOnFailure ==
    \A h \in Handles : (granted[h] /\ fetch[h] = "head") =>
        /\ n_close[h] > 0 => rel_count[h] = n_close[h] /\ rel_vids[h] = {h_vid[h]}
        /\ close_rel[h] = "fail" =>
              /\ h_ret[h] # SD_RES_SUCCESS
              /\ h_mem[h] = "live"
              /\ hpc[h] = "open"
        /\ hpc[h] = "closed" => close_rel[h] = "ok"

(* ================================================================== *)
(*  Part III: sd_vdi_snapshot                                          *)
(* ================================================================== *)

\* concurrent callers of the volume-management API, one call each
NSnapCalls == 2
SnapCalls == 1..NSnapCalls

\* arguments the callers pass; "" is the empty (or NULL) string
VdiNames == {"", "a", "b", "zz"}
VdiTags == {"", "t1", "t2"}

\* the cluster's inode table when the calls start: identity 1 is a snapshot
\* of volume "a" under tag "t1", identity 3 is the head of "a" on top of it,
\* identity 2 is the head of the hyper volume "b"
InitVdis ==
    << [name |-> "a", tag |-> "t1", size |-> 1, policy |-> 0, snap |-> TRUE,
        base |-> 0],
       [name |-> "b", tag |-> "", size |-> 2, policy |-> 1, snap |-> FALSE,
        base |-> 0],
       [name |-> "a", tag |-> "", size |-> 1, policy |-> 0, snap |-> FALSE,
        base |-> 1] >>

\* an inode header buffer nothing was read into
NoInode == [vdi_id |-> 0, name |-> "", size |-> 0, policy |-> 0]

VARIABLES
    spc,       \* position of each call: idle, read_find, read_obj, write,
               \* create, done
    s_name,    \* argument name
    s_tag,     \* argument snap_tag
    s_vid,     \* vdi_read_inode: the identity its lookup resolved
    s_inode,   \* the inode header buffer (vdi_id 0: nothing read into it)
    s_ret,     \* what the call returned
    vdis,      \* cluster: the inode table, indexed by identity
    call_log   \* history: the remote calls of each call, in order, with the
               \* outcome of each (ok: both stages succeeded)

snapVars == <<spc, s_name, s_tag, s_vid, s_inode, s_ret, vdis, call_log>>

InitSnap ==
    /\ spc = [c \in SnapCalls |-> "idle"]
    /\ s_name = [c \in SnapCalls |-> ""]
    /\ s_tag = [c \in SnapCalls |-> ""]
    /\ s_vid = [c \in SnapCalls |-> 0]
    /\ s_inode = [c \in SnapCalls |-> NoInode]
    /\ s_ret = [c \in SnapCalls |-> NoRet]
    /\ vdis = InitVdis
    /\ call_log = [c \in SnapCalls |-> <<>>]

\* the outcome of a call: the transport-level failure, else the cluster's
\* operation-level result
Answer(rsp) == IF rsp.ret # SD_RES_SUCCESS THEN rsp.ret ELSE rsp.result

\* one entry of call_log: the request, and of its response whether both
\* stages succeeded (ok) and the outcome (res)
Req(op, name, tag, vid, size, policy, snapid, rsp) ==
    [op |-> op, name |-> name, tag |-> tag, vid |-> vid, size |-> size,
     policy |-> policy, snapid |-> snapid, ok |-> Succeeded(rsp),
     res |-> Answer(rsp)]

Logged(c, r) == call_log' = [call_log EXCEPT ![c] = Append(call_log[c], r)]

(* ------------------------------------------------------------------ *)
(* The cluster's answers to the calls of this part                     *)
(* ------------------------------------------------------------------ *)

\* a delivered call that the cluster answers with an operation-level error
OpFailure(code) ==
    [ret |-> SD_RES_SUCCESS, result |-> code, vdi_id |-> 0, effect |-> FALSE,
     kind |-> "none"]

\* a delivered call that the cluster carried out
OpSuccess(vid) ==
    [ret |-> SD_RES_SUCCESS, result |-> SD_RES_SUCCESS, vdi_id |-> vid,
     effect |-> TRUE, kind |-> "none"]

\* identities a (name, tag) pair resolves to; without a tag, the head
Lookup(name, tag) ==
    {v \in DOMAIN vdis :
        /\ vdis[v].name = name
        /\ IF tag = "" THEN ~vdis[v].snap ELSE vdis[v].tag = tag}

\* SD_OP_GET_VDI_INFO
FindResponses(name, tag) ==
    {TransportFailure, OpFailure(SD_RES_EIO)} \cup
    (IF Lookup(name, tag) # {}
       THEN {OpSuccess(v) : v \in Lookup(name, tag)}
     ELSE IF \E v \in DOMAIN vdis : vdis[v].name = name
       THEN {OpFailure(SD_RES_NO_TAG)}
       ELSE {OpFailure(SD_RES_NO_VDI)})

\* SD_OP_READ_OBJ / SD_OP_WRITE_OBJ on the header object of an identity
ObjResponses(vid) ==
    {TransportFailure, OpFailure(SD_RES_EIO)} \cup
    (IF vid \in DOMAIN vdis THEN {OpSuccess(vid)} ELSE {})

\* SD_OP_NEW_VDI: the new identity is the next free one
NewVdiResponses ==
    {TransportFailure, OpFailure(SD_RES_EIO), OpSuccess(Len(vdis) + 1)}

\* the inode table after a tag was written into the header of vid
TagWritten(vid, tag) == [vdis EXCEPT ![vid].tag = tag]

\* the inode table after SD_OP_NEW_VDI: a new head on top of base; with
\* snapid set, base is frozen as a snapshot
VdiCreated(name, size, base, snapid, policy) ==
    LET frozen == IF snapid = 1 /\ base \in DOMAIN vdis
                    THEN [vdis EXCEPT ![base].snap = TRUE]
                    ELSE vdis
    IN Append(frozen, [name |-> name, tag |-> "", size |-> size,
                       policy |-> policy, snap |-> FALSE, base |-> base])

\* the inode header the cluster returns for an identity
InodeHeader(vid) ==
    [vdi_id |-> vid, name |-> vdis[vid].name, size |-> vdis[vid].size,
     policy |-> vdis[vid].policy]

(* ------------------------------------------------------------------ *)
(* The helpers of vdi.c: the value each returns for a response         *)
(* ------------------------------------------------------------------ *)

\* find_vdi: the transport-level result if it is a failure, else rsp->result
find_vdi(rsp) ==
    IF rsp.ret # SD_RES_SUCCESS THEN rsp.ret ELSE rsp.result

\* read_object: both stages are checked
read_object(rsp) ==
    IF rsp.ret # SD_RES_SUCCESS THEN rsp.ret
    ELSE IF rsp.result # SD_RES_SUCCESS THEN rsp.result
    ELSE SD_RES_SUCCESS

\* a write_object that looks at the transport-level result only
write_object_unchecked(rsp) ==
    IF rsp.ret # SD_RES_SUCCESS THEN rsp.ret ELSE SD_RES_SUCCESS

\* write_object: both stages are checked
write_object(rsp) ==
    IF rsp.ret # SD_RES_SUCCESS THEN rsp.ret
    ELSE IF rsp.result # SD_RES_SUCCESS THEN rsp.result
    ELSE SD_RES_SUCCESS

\* do_vdi_create: only the transport-level result is looked at
do_vdi_create(rsp) ==
    IF rsp.ret # SD_RES_SUCCESS THEN rsp.ret ELSE SD_RES_SUCCESS

\* a branch that takes every lookup failure for "no such tag"
snapshot_branch_any_failure(ret) ==
    IF ret = SD_RES_SUCCESS THEN "exists" ELSE "proceed"

\* a branch that lets an existing tag through to the snapshot path
snapshot_branch_no_exist_check(ret) ==
    IF ret = SD_RES_SUCCESS \/ ret = SD_RES_NO_TAG THEN "proceed" ELSE "fail"

\* sd_vdi_snapshot: the three-way branch on the result of the tag lookup
snapshot_branch(ret) ==
    IF ret = SD_RES_SUCCESS THEN "exists"
    ELSE IF ret = SD_RES_NO_TAG THEN "proceed"
    ELSE "fail"

\* a policy test that lets every volume pass
store_policy_ignored(inode) == FALSE

\* sd_vdi_snapshot: if (inode->store_policy)
store_policy_set(inode) == inode.policy # 0

(* ------------------------------------------------------------------ *)
(* sd_vdi_snapshot, one action per remote call                         *)
(* ------------------------------------------------------------------ *)

\* return ret from sd_vdi_snapshot
SnapReturn(c, ret) ==
    /\ s_ret' = [s_ret EXCEPT ![c] = ret]
    /\ spc' = [spc EXCEPT ![c] = "done"]

\* sd_vdi_snapshot: argument checks, then find_vdi(c, name, snap_tag, NULL)
sd_vdi_snapshot(c, name, tag, rsp) ==
    /\ spc[c] = "idle"
    /\ s_name' = [s_name EXCEPT ![c] = name]
    /\ s_tag' = [s_tag EXCEPT ![c] = tag]
    /\ IF tag = "" \/ name = ""
         THEN /\ SnapReturn(c, SD_RES_INVALID_PARMS)
              /\ UNCHANGED call_log
         ELSE /\ Logged(c, Req("GET_VDI_INFO", name, tag, rsp.vdi_id, 0, 0, 0,
                               rsp))
              /\ IF snapshot_branch(find_vdi(rsp)) = "exists"
                   THEN SnapReturn(c, SD_RES_INVALID_PARMS)
                 ELSE IF snapshot_branch(find_vdi(rsp)) = "proceed"
                   THEN /\ spc' = [spc EXCEPT ![c] = "read_find"]
                        /\ UNCHANGED s_ret
                   ELSE SnapReturn(c, find_vdi(rsp))
    /\ UNCHANGED <<s_vid, s_inode, vdis>>

\* vdi_read_inode(c, name, NULL, inode, true): find_vdi(c, name, tag, &vid)
vdi_read_inode_find(c, rsp) ==
    /\ spc[c] = "read_find"
    /\ Logged(c, Req("GET_VDI_INFO", s_name[c], "", rsp.vdi_id, 0, 0, 0,
                     rsp))
    /\ IF find_vdi(rsp) # SD_RES_SUCCESS
         THEN /\ SnapReturn(c, find_vdi(rsp))
              /\ UNCHANGED s_vid
         ELSE /\ s_vid' = [s_vid EXCEPT ![c] = rsp.vdi_id]
              /\ spc' = [spc EXCEPT ![c] = "read_obj"]
              /\ UNCHANGED s_ret
    /\ UNCHANGED <<s_name, s_tag, s_inode, vdis>>

\* vdi_read_inode: read_object(c, vid_to_vdi_oid(vid), inode, len, 0, true);
\* back in sd_vdi_snapshot, the test of inode->store_policy
vdi_read_inode_read(c, rsp) ==
    /\ spc[c] = "read_obj"
    /\ Logged(c, Req("READ_OBJ", "", "", s_vid[c], 0, 0, 0, rsp))
    /\ IF read_object(rsp) # SD_RES_SUCCESS
         THEN /\ SnapReturn(c, read_object(rsp))
              /\ UNCHANGED s_inode
         ELSE /\ s_inode' = [s_inode EXCEPT ![c] = InodeHeader(s_vid[c])]
              /\ IF store_policy_set(InodeHeader(s_vid[c]))
                   THEN SnapReturn(c, SD_RES_INVALID_PARMS)
                   ELSE /\ spc' = [spc EXCEPT ![c] = "write"]
                        /\ UNCHANGED s_ret
    /\ UNCHANGED <<s_name, s_tag, s_vid, vdis>>

\* sd_vdi_snapshot: write_object(c, vid_to_vdi_oid(inode->vdi_id), 0,
\* snap_tag, SD_MAX_VDI_TAG_LEN, offsetof(struct sd_inode, tag), ...)
sd_vdi_snapshot_write(c, rsp) ==
    /\ spc[c] = "write"
    /\ Logged(c, Req("WRITE_OBJ", "", s_tag[c], s_inode[c].vdi_id, 0, 0, 0,
                     rsp))
    /\ vdis' = IF Succeeded(rsp) THEN TagWritten(s_inode[c].vdi_id, s_tag[c])
                                 ELSE vdis
    /\ IF write_object(rsp) # SD_RES_SUCCESS
         THEN SnapReturn(c, write_object(rsp))
         ELSE /\ spc' = [spc EXCEPT ![c] = "create"]
              /\ UNCHANGED s_ret
    /\ UNCHANGED <<s_name, s_tag, s_vid, s_inode>>

\* sd_vdi_snapshot: ret = do_vdi_create(c, inode->name, inode->vdi_size,
\* inode->vdi_id, NULL, true, 0); return ret
sd_vdi_snapshot_create(c, rsp) ==
    /\ spc[c] = "create"
    /\ Logged(c, Req("NEW_VDI", s_inode[c].name, "", s_inode[c].vdi_id,
                     s_inode[c].size, 0, 1, rsp))
    /\ vdis' = IF Succeeded(rsp)
                 THEN VdiCreated(s_inode[c].name, s_inode[c].size,
                                 s_inode[c].vdi_id, 1, 0)
                 ELSE vdis
    /\ SnapReturn(c, do_vdi_create(rsp))
    /\ UNCHANGED <<s_name, s_tag, s_vid, s_inode>>


(* ================================================================== *)
(*  Part IV: sd_vdi_create and sd_vdi_clone                            *)
(* ================================================================== *)

\* the size limits of sheepdog_proto.h, scaled down to units of the legacy
\* maximum: sizes up to SD_OLD_MAX_VDI_SIZE are standard volumes, sizes up
\* to SD_MAX_VDI_SIZE are valid
SD_OLD_MAX_VDI_SIZE == 1
SD_MAX_VDI_SIZE == 3

SD_RES_VDI_EXIST == "SD_RES_VDI_EXIST"

\* sizes the callers pass: zero, both sides of each limit
VdiSizes == 0..(SD_MAX_VDI_SIZE + 1)

\* destination names the callers of sd_vdi_clone pass
CloneDsts == {"", "a", "n"}

\* callers of SpecVol, one call each of create, clone or snapshot; they are
\* the first of the SnapCalls
NVolCalls == 1
VolCalls == 1..NVolCalls

VARIABLES
    v_op,      \* "create" | "clone" once the call is one of these, else "none"
    v_dst,     \* sd_vdi_clone: argument dstname
    v_size     \* sd_vdi_create: argument size

volVars == <<v_op, v_dst, v_size>>

InitVol ==
    /\ v_op = [c \in SnapCalls |-> "none"]
    /\ v_dst = [c \in SnapCalls |-> ""]
    /\ v_size = [c \in SnapCalls |-> 0]

\* SD_OP_NEW_VDI for a volume name outside a snapshot: refused when the name
\* has a head already
CreateResponses(name) ==
    {TransportFailure, OpFailure(SD_RES_EIO)} \cup
    (IF Lookup(name, "") # {}
       THEN {OpFailure(SD_RES_VDI_EXIST)}
       ELSE {OpSuccess(Len(vdis) + 1)})

\* an argument check that lets size 0 through
create_args_invalid_no_zero_check(name, size) ==
    size > SD_MAX_VDI_SIZE \/ name = ""

\* sd_vdi_create: the three argument checks
create_args_invalid(name, size) ==
    size > SD_MAX_VDI_SIZE \/ size = 0 \/ name = ""

\* a policy choice with the threshold itself taken for a hyper volume
store_policy_at_threshold(size) ==
    IF size >= SD_OLD_MAX_VDI_SIZE THEN 1 ELSE 0

\* sd_vdi_create: store_policy = 0; if (size > SD_OLD_MAX_VDI_SIZE) 1
store_policy_for(size) ==
    IF size > SD_OLD_MAX_VDI_SIZE THEN 1 ELSE 0

\* sd_vdi_clone: the three argument checks
clone_args_invalid(srcname, srctag, dstname) ==
    dstname = "" \/ srctag = "" \/ srcname = ""

\* sd_vdi_create: argument checks, then do_vdi_create(c, name, size, 0, NULL,
\* false, store_policy); return ret
sd_vdi_create(c, name, size, rsp) ==
    /\ spc[c] = "idle"
    /\ v_op' = [v_op EXCEPT ![c] = "create"]
    /\ v_size' = [v_size EXCEPT ![c] = size]
    /\ s_name' = [s_name EXCEPT ![c] = name]
    /\ IF create_args_invalid(name, size)
         THEN /\ SnapReturn(c, SD_RES_INVALID_PARMS)
              /\ UNCHANGED <<call_log, vdis>>
         ELSE /\ Logged(c, Req("NEW_VDI", name, "", 0, size,
                               store_policy_for(size), 0, rsp))
              /\ vdis' = IF Succeeded(rsp)
                           THEN VdiCreated(name, size, 0, 0,
                                           store_policy_for(size))
                           ELSE vdis
              /\ SnapReturn(c, do_vdi_create(rsp))
    /\ UNCHANGED <<s_tag, s_vid, s_inode, v_dst>>

\* a clone that creates the volume whatever vdi_read_inode returned
clone_find_unchecked(c, srcname, srctag, dstname, rsp) ==
    /\ spc[c] = "idle"
    /\ v_op' = [v_op EXCEPT ![c] = "clone"]
    /\ v_dst' = [v_dst EXCEPT ![c] = dstname]
    /\ s_name' = [s_name EXCEPT ![c] = srcname]
    /\ s_tag' = [s_tag EXCEPT ![c] = srctag]
    /\ IF clone_args_invalid(srcname, srctag, dstname)
         THEN /\ SnapReturn(c, SD_RES_INVALID_PARMS)
              /\ UNCHANGED <<call_log, s_vid>>
         ELSE /\ Logged(c, Req("GET_VDI_INFO", srcname, srctag, rsp.vdi_id,
                               0, 0, 0, rsp))
              /\ s_vid' = [s_vid EXCEPT ![c] = rsp.vdi_id]
              /\ spc' = [spc EXCEPT ![c] =
                            IF find_vdi(rsp) # SD_RES_SUCCESS
                              THEN "clone_create" ELSE "clone_read"]
              /\ UNCHANGED s_ret
    /\ UNCHANGED <<s_inode, vdis, v_size>>

\* sd_vdi_clone: argument checks, then vdi_read_inode(c, srcname, srctag,
\* inode, false), of which this is find_vdi(c, name, tag, &vid)
sd_vdi_clone(c, srcname, srctag, dstname, rsp) ==
    /\ spc[c] = "idle"
    /\ v_op' = [v_op EXCEPT ![c] = "clone"]
    /\ v_dst' = [v_dst EXCEPT ![c] = dstname]
    /\ s_name' = [s_name EXCEPT ![c] = srcname]
    /\ s_tag' = [s_tag EXCEPT ![c] = srctag]
    /\ IF clone_args_invalid(srcname, srctag, dstname)
         THEN /\ SnapReturn(c, SD_RES_INVALID_PARMS)
              /\ UNCHANGED <<call_log, s_vid>>
         ELSE /\ Logged(c, Req("GET_VDI_INFO", srcname, srctag, rsp.vdi_id,
                               0, 0, 0, rsp))
              /\ IF find_vdi(rsp) # SD_RES_SUCCESS
                   THEN /\ SnapReturn(c, find_vdi(rsp))
                        /\ UNCHANGED s_vid
                   ELSE /\ s_vid' = [s_vid EXCEPT ![c] = rsp.vdi_id]
                        /\ spc' = [spc EXCEPT ![c] = "clone_read"]
                        /\ UNCHANGED s_ret
    /\ UNCHANGED <<s_inode, vdis, v_size>>

\* sd_vdi_clone: vdi_read_inode's read_object of the whole inode; on failure
\* goto out
sd_vdi_clone_read(c, rsp) ==
    /\ spc[c] = "clone_read"
    /\ Logged(c, Req("READ_OBJ", "", "", s_vid[c], 0, 0, 0, rsp))
    /\ IF read_object(rsp) # SD_RES_SUCCESS
         THEN /\ SnapReturn(c, read_object(rsp))
              /\ UNCHANGED s_inode
         ELSE /\ s_inode' = [s_inode EXCEPT ![c] = InodeHeader(s_vid[c])]
              /\ spc' = [spc EXCEPT ![c] = "clone_create"]
              /\ UNCHANGED s_ret
    /\ UNCHANGED <<s_name, s_tag, s_vid, vdis, volVars>>

\* sd_vdi_clone: ret = do_vdi_create(c, dstname, inode->vdi_size,
\* inode->vdi_id, NULL, false, inode->store_policy); return ret
sd_vdi_clone_create(c, rsp) ==
    /\ spc[c] = "clone_create"
    /\ Logged(c, Req("NEW_VDI", v_dst[c], "", s_inode[c].vdi_id,
                     s_inode[c].size, s_inode[c].policy, 0, rsp))
    /\ vdis' = IF Succeeded(rsp)
                 THEN VdiCreated(v_dst[c], s_inode[c].size, s_inode[c].vdi_id,
                                 0, s_inode[c].policy)
                 ELSE vdis
    /\ SnapReturn(c, do_vdi_create(rsp))
    /\ UNCHANGED <<s_name, s_tag, s_vid, s_inode, volVars>>

(* ================================================================== *)
(*  The specifications                                                 *)
(* ================================================================== *)

vars == <<ioVars, lockVars, snapVars, volVars>>

Init == InitIO /\ InitLock /\ InitSnap /\ InitVol

UnusedByIO == UNCHANGED <<lockVars, snapVars, volVars>>

UnusedByLock == UNCHANGED <<ioVars, snapVars, volVars>>

UnusedBySnap == UNCHANGED <<ioVars, lockVars, volVars>>

UnusedByVol == UNCHANGED <<ioVars, lockVars>>

NextIO ==
    \/ \E c \in Callers : sd_vdi_read(c) /\ UnusedByIO
    \/ \E c \in Callers : sd_vdi_write(c) /\ UnusedByIO
    \/ \E c \in Callers : sd_write_lock(c) /\ UnusedByIO
    \/ \E c \in Callers : list_add_tail(c) /\ UnusedByIO
    \/ \E c \in Callers : eventfd_xwrite_request_fd(c) /\ UnusedByIO
    \/ \E c \in Callers : eventfd_xread_return(c) /\ UnusedByIO
    \/ DispWake /\ UnusedByIO
    \/ DispTake /\ UnusedByIO
    \/ \E r \in Callers, res \in IoResults : DispStore(r, res) /\ UnusedByIO
    \/ \E r \in Callers : DispSignal(r) /\ UnusedByIO

NextLock ==
    \/ \E h \in Handles, name \in Names :
          \E rsp \in LockResponses(h, name) :
              sd_vdi_open_lock(h, name, rsp) /\ UnusedByLock
    \/ \E h \in Handles, junk \in {"head", "snap"} :
          \E rsp \in InodeResponses(h_vid[h]) :
              sd_vdi_open_fetch(h, rsp, junk) /\ UnusedByLock
    \/ \E h \in Handles :
          \E rsp \in ReleaseResponses(h, h_vid[h]) :
              sd_vdi_open_unlock(h, rsp) /\ UnusedByLock
    \/ \E h \in Handles :
          \E rsp \in ReleaseResponses(h, h_vid[h]) :
              sd_vdi_close(h, rsp) /\ UnusedByLock

NextSnap ==
    \/ \E c \in SnapCalls, name \in VdiNames, tag \in VdiTags :
          \E rsp \in FindResponses(name, tag) :
              sd_vdi_snapshot(c, name, tag, rsp) /\ UnusedBySnap
    \/ \E c \in SnapCalls :
          \E rsp \in FindResponses(s_name[c], "") :
              vdi_read_inode_find(c, rsp) /\ UnusedBySnap
    \/ \E c \in SnapCalls :
          \E rsp \in ObjResponses(s_vid[c]) :
              vdi_read_inode_read(c, rsp) /\ UnusedBySnap
    \/ \E c \in SnapCalls :
          \E rsp \in ObjResponses(s_inode[c].vdi_id) :
              sd_vdi_snapshot_write(c, rsp) /\ UnusedBySnap
    \/ \E c \in SnapCalls :
          \E rsp \in NewVdiResponses :
              sd_vdi_snapshot_create(c, rsp) /\ UnusedBySnap

NextVol ==
    \/ \E c \in VolCalls, name \in VdiNames, tag \in VdiTags :
          \E rsp \in FindResponses(name, tag) :
              sd_vdi_snapshot(c, name, tag, rsp) /\ UnusedBySnap
    \/ \E c \in VolCalls :
          \E rsp \in FindResponses(s_name[c], "") :
              vdi_read_inode_find(c, rsp) /\ UnusedBySnap
    \/ \E c \in VolCalls :
          \E rsp \in ObjResponses(s_vid[c]) :
              vdi_read_inode_read(c, rsp) /\ UnusedBySnap
    \/ \E c \in VolCalls :
          \E rsp \in ObjResponses(s_inode[c].vdi_id) :
              sd_vdi_snapshot_write(c, rsp) /\ UnusedBySnap
    \/ \E c \in VolCalls :
          \E rsp \in NewVdiResponses :
              sd_vdi_snapshot_create(c, rsp) /\ UnusedBySnap
    \/ \E c \in VolCalls, name \in VdiNames, size \in VdiSizes :
          \E rsp \in CreateResponses(name) :
              sd_vdi_create(c, name, size, rsp) /\ UnusedByVol
    \/ \E c \in VolCalls, srcname \in VdiNames, srctag \in VdiTags,
          dstname \in CloneDsts :
          \E rsp \in FindResponses(srcname, srctag) :
              sd_vdi_clone(c, srcname, srctag, dstname, rsp) /\ UnusedByVol
    \/ \E c \in VolCalls :
          \E rsp \in ObjResponses(s_vid[c]) :
              sd_vdi_clone_read(c, rsp) /\ UnusedByVol
    \/ \E c \in VolCalls :
          \E rsp \in CreateResponses(v_dst[c]) :
              sd_vdi_clone_create(c, rsp) /\ UnusedByVol

SpecIO == Init /\ [][NextIO]_vars

SpecLock == Init /\ [][NextLock]_vars

\* SpecIO with a dispatcher that keeps serving and caller threads that keep
\* running: every step of queue_request, the wake-up from the request's
\* eventfd and every dispatcher step is taken if it stays possible.  Whether
\* a caller starts a call at all is left open.
FairIO ==
    /\ \A c \in Callers :
          /\ WF_vars(sd_write_lock(c) /\ UnusedByIO)
          /\ WF_vars(list_add_tail(c) /\ UnusedByIO)
          /\ WF_vars(eventfd_xwrite_request_fd(c) /\ UnusedByIO)
          /\ WF_vars(eventfd_xread_return(c) /\ UnusedByIO)
          /\ WF_vars((\E res \in IoResults : DispStore(c, res)) /\ UnusedByIO)
          /\ WF_vars(DispSignal(c) /\ UnusedByIO)
    /\ WF_vars(DispWake /\ UnusedByIO)
    /\ WF_vars(DispTake /\ UnusedByIO)

FairSpecIO == Init /\ [][NextIO]_vars /\ FairIO


SpecSnap == Init /\ [][NextSnap]_vars

SpecVol == Init /\ [][NextVol]_vars

(* ------------------------------------------------------------------ *)
(* Claims about sd_vdi_snapshot                                        *)
(* ------------------------------------------------------------------ *)

\* the operations of the remote calls a call has issued, in order
Ops(c) == [i \in 1..Len(call_log[c]) |-> call_log[c][i].op]

\* C7: when the lookup of (name, tag) resolves to an identity, the call has
\* returned SD_RES_INVALID_PARMS and that lookup is the only remote call it
\* issued: no inode read, no tag write, no create request.
C7_ExistingTagNoWrites ==
    \A c \in SnapCalls :
        (Len(call_log[c]) >= 1 /\ call_log[c][1].ok) =>
            /\ spc[c] = "done"
            /\ s_ret[c] = SD_RES_INVALID_PARMS
            /\ Ops(c) = <<"GET_VDI_INFO">>
            /\ call_log[c][1].name = s_name[c]
            /\ call_log[c][1].tag = s_tag[c]

\* a snapshot of "a" under its existing tag "t1" was refused
C7_Witness ==
    \E c \in SnapCalls :
        /\ spc[c] = "done"
        /\ s_name[c] = "a" /\ s_tag[c] = "t1"
        /\ Len(call_log[c]) = 1 /\ call_log[c][1].ok
        /\ call_log[c][1].vid = 1

\* C8: a create request is the fifth remote call of a snapshot, right after
\* a tag write that succeeded; the tag write went to the header object of the
\* identity the head lookup resolved, with the caller's tag; the create names
\* that same identity as its base, the frozen inode's name and size, policy 0
\* and the snapshot flag.  A call whose inode read succeeded on a standard
\* volume goes on to the tag write, and one whose tag write succeeded goes
\* on to the create.
C8_TagWriteThenCreate ==
    \A c \in SnapCalls :
        /\ \A i \in 1..Len(call_log[c]) :
              call_log[c][i].op = "NEW_VDI" =>
                  /\ Ops(c) = <<"GET_VDI_INFO", "GET_VDI_INFO", "READ_OBJ",
                                "WRITE_OBJ", "NEW_VDI">>
                  /\ call_log[c][2].ok
                  /\ call_log[c][3].ok
                  /\ call_log[c][4].ok
                  /\ call_log[c][4].vid = call_log[c][2].vid
                  /\ call_log[c][4].tag = s_tag[c]
                  /\ call_log[c][5].vid = call_log[c][4].vid
                  /\ call_log[c][5].name = s_name[c]
                  /\ call_log[c][5].size = vdis[call_log[c][4].vid].size
                  /\ call_log[c][5].policy = 0
                  /\ call_log[c][5].snapid = 1
        /\ (spc[c] = "done" /\ Len(call_log[c]) = 3 /\ call_log[c][3].ok) =>
              vdis[call_log[c][3].vid].policy # 0
        /\ (spc[c] = "done" /\ Len(call_log[c]) = 4) => ~call_log[c][4].ok

\* a snapshot went through: the old head carries the tag and is frozen, and
\* a new head of the same name and size sits on top of it
C8_Witness ==
    \E c \in SnapCalls :
        /\ spc[c] = "done" /\ s_ret[c] = SD_RES_SUCCESS
        /\ Len(call_log[c]) = 5 /\ call_log[c][5].ok
        /\ LET frozen == call_log[c][4].vid
           IN /\ vdis[frozen].tag = s_tag[c]
              /\ vdis[frozen].snap
              /\ \E v \in DOMAIN vdis :
                    /\ vdis[v].base = frozen
                    /\ ~vdis[v].snap
                    /\ vdis[v].name = s_name[c]
                    /\ vdis[v].size = vdis[frozen].size
                    /\ vdis[v].policy = 0

\* C9: when the head inode read has the large-volume policy, the call has
\* returned SD_RES_INVALID_PARMS after the two lookups and the read, with no
\* tag write and no create; the inodes of large volumes are as they were and
\* none is the base of another inode.
C9_HyperVolumeRefused ==
    /\ \A c \in SnapCalls :
          s_inode[c].policy # 0 =>
              /\ spc[c] = "done"
              /\ s_ret[c] = SD_RES_INVALID_PARMS
              /\ Ops(c) = <<"GET_VDI_INFO", "GET_VDI_INFO", "READ_OBJ">>
    /\ \A v \in DOMAIN InitVdis :
          InitVdis[v].policy # 0 =>
              /\ vdis[v] = InitVdis[v]
              /\ \A w \in DOMAIN vdis : vdis[w].base # v

\* a snapshot of the hyper volume "b" was refused after its inode was read
C9_Witness ==
    \E c \in SnapCalls :
        /\ spc[c] = "done"
        /\ s_name[c] = "b"
        /\ s_inode[c].policy # 0
        /\ s_ret[c] = SD_RES_INVALID_PARMS

\* C10: a call whose tag write succeeded and whose create failed has returned
\* a failure code and issued nothing after the create; a call returns
\* SD_RES_SUCCESS only if its tag write and its create both succeeded.
C10_NoSilentPartialFailure ==
    \A c \in SnapCalls :
        spc[c] = "done" =>
            /\ (Len(call_log[c]) = 5 /\ ~call_log[c][5].ok) =>
                  s_ret[c] # SD_RES_SUCCESS
            /\ s_ret[c] = SD_RES_SUCCESS =>
                  /\ Len(call_log[c]) = 5
                  /\ call_log[c][4].ok
                  /\ call_log[c][5].ok

\* C11: only the lookup outcome "no such tag" leads on to the snapshot
\* branch: after any other lookup failure the call has returned that very
\* code and the lookup is its only remote call; a call that issued a second
\* remote call had "no such tag" for an answer.
C11_OnlyNoTagProceeds ==
    \A c \in SnapCalls :
        Len(call_log[c]) >= 1 =>
            /\ call_log[c][1].res \notin {SD_RES_SUCCESS, SD_RES_NO_TAG} =>
                  /\ spc[c] = "done"
                  /\ s_ret[c] = call_log[c][1].res
                  /\ Ops(c) = <<"GET_VDI_INFO">>
            /\ Len(call_log[c]) >= 2 => call_log[c][1].res = SD_RES_NO_TAG

\* one call was answered "no such volume", another was not delivered; both
\* returned what they got
C11_Witness ==
    \E c1, c2 \in SnapCalls :
        /\ spc[c1] = "done" /\ Len(call_log[c1]) = 1
        /\ call_log[c1][1].res = SD_RES_NO_VDI
        /\ s_ret[c1] = SD_RES_NO_VDI
        /\ spc[c2] = "done" /\ Len(call_log[c2]) = 1
        /\ call_log[c2][1].res = SD_RES_NETWORK_ERROR
        /\ s_ret[c2] = SD_RES_NETWORK_ERROR

(* ------------------------------------------------------------------ *)
(* Claims about argument checks, sd_vdi_clone and sd_vdi_create        *)
(* ------------------------------------------------------------------ *)

\* the call has started and its arguments fail the checks of its function
InvalidArgs(c) ==
    /\ spc[c] # "idle"
    /\ IF v_op[c] = "create"
         THEN v_size[c] = 0 \/ v_size[c] > SD_MAX_VDI_SIZE \/ s_name[c] = ""
       ELSE IF v_op[c] = "clone"
         THEN v_dst[c] = "" \/ s_tag[c] = "" \/ s_name[c] = ""
         ELSE s_name[c] = "" \/ s_tag[c] = ""

\* C12: a create, clone or snapshot call whose arguments fail the local
\* checks has returned SD_RES_INVALID_PARMS without any remote call; as long
\* as no other call was made, the cluster's inode table is as it was.
C12_InvalidArgsNoRemoteCall ==
    /\ \A c \in SnapCalls :
          InvalidArgs(c) =>
              /\ spc[c] = "done"
              /\ s_ret[c] = SD_RES_INVALID_PARMS
              /\ call_log[c] = <<>>
    /\ (\A c \in SnapCalls : spc[c] = "idle" \/ InvalidArgs(c)) =>
          vdis = InitVdis

\* a create of size 0 under a good name was refused
C12_Witness ==
    \E c \in SnapCalls :
        /\ v_op[c] = "create"
        /\ s_name[c] = "zz" /\ v_size[c] = 0
        /\ spc[c] = "done"
        /\ s_ret[c] = SD_RES_INVALID_PARMS

\* C13: the create request of a clone is its third and last remote call,
\* after a lookup of (srcname, srctag) and a read of the resolved identity
\* that both succeeded; it names the destination, the source's size and
\* policy, and the source identity as base.  A clone whose lookup or read
\* failed has returned that failure and issued no create; one whose lookup
\* and read succeeded goes on to the create.
C13_CloneCopiesSource ==
    \A c \in SnapCalls :
        v_op[c] = "clone" =>
            /\ \A i \in 1..Len(call_log[c]) :
                  call_log[c][i].op = "NEW_VDI" =>
                      /\ Ops(c) = <<"GET_VDI_INFO", "READ_OBJ", "NEW_VDI">>
                      /\ call_log[c][1].ok
                      /\ call_log[c][1].name = s_name[c]
                      /\ call_log[c][1].tag = s_tag[c]
                      /\ call_log[c][2].ok
                      /\ call_log[c][2].vid = call_log[c][1].vid
                      /\ call_log[c][3].vid = call_log[c][1].vid
                      /\ call_log[c][3].name = v_dst[c]
                      /\ call_log[c][3].size = vdis[call_log[c][1].vid].size
                      /\ call_log[c][3].policy =
                             vdis[call_log[c][1].vid].policy
                      /\ call_log[c][3].snapid = 0
            /\ \A i \in 1..Len(call_log[c]) :
                  (i <= 2 /\ ~call_log[c][i].ok) =>
                      /\ spc[c] = "done"
                      /\ Len(call_log[c]) = i
                      /\ s_ret[c] = call_log[c][i].res
                      /\ s_ret[c] # SD_RES_SUCCESS
            /\ (spc[c] = "done" /\ ~InvalidArgs(c)) =>
                  (Len(call_log[c]) = 3 \/ ~call_log[c][Len(call_log[c])].ok)

\* the snapshot "a"@"t1" was cloned into "n": a new inode of that name, size
\* and policy sits on the snapshot's identity
C13_Witness ==
    \E c \in SnapCalls :
        /\ v_op[c] = "clone" /\ spc[c] = "done"
        /\ s_ret[c] = SD_RES_SUCCESS
        /\ Len(call_log[c]) = 3 /\ call_log[c][3].ok
        /\ \E v \in DOMAIN vdis :
              /\ vdis[v].name = "n"
              /\ vdis[v].base = 1
              /\ vdis[v].size = vdis[1].size
              /\ vdis[v].policy = vdis[1].policy

\* C14: a create with valid arguments has issued one create request, with
\* the caller's name and size, base identity 0, no snapshot flag, and the
\* large-volume policy exactly when the size is above the legacy threshold.
C14_CreatePolicyBySize ==
    \A c \in SnapCalls :
        (v_op[c] = "create" /\ spc[c] # "idle" /\ ~InvalidArgs(c)) =>
            /\ spc[c] = "done"
            /\ Ops(c) = <<"NEW_VDI">>
            /\ call_log[c][1].name = s_name[c]
            /\ call_log[c][1].size = v_size[c]
            /\ call_log[c][1].vid = 0
            /\ call_log[c][1].snapid = 0
            /\ v_size[c] > SD_OLD_MAX_VDI_SIZE => call_log[c][1].policy = 1
            /\ v_size[c] <= SD_OLD_MAX_VDI_SIZE => call_log[c][1].policy = 0

\* a volume of exactly the legacy threshold was created as a standard volume
C14_Witness ==
    \E c \in SnapCalls :
        /\ v_op[c] = "create" /\ spc[c] = "done"
        /\ v_size[c] = SD_OLD_MAX_VDI_SIZE
        /\ Len(call_log[c]) = 1 /\ call_log[c][1].ok
        /\ \E v \in DOMAIN vdis :
              /\ vdis[v].name = s_name[c]
              /\ vdis[v].size = v_size[c]
              /\ vdis[v].policy = 0
              /\ vdis[v].base = 0
              /\ v \notin DOMAIN InitVdis

(* ------------------------------------------------------------------ *)
(* Claims about the remote calls as a whole                            *)
(* ------------------------------------------------------------------ *)

\* C15: every remote call reports success only if the transport-level and
\* the operation-level result were both success.  For the calls of open and
\* close: a handle got past lock_vdi only if the cluster granted the lock,
\* past the inode fetch only if the inode was read, and was freed by
\* sd_vdi_close only if the release succeeded.
C15_SuccessNeedsBothStages ==
    \A h \in Handles :
        /\ hpc[h] \in {"locked", "out_unlock", "open", "closed"} =>
              lock_res[h] = SD_RES_SUCCESS
        /\ hpc[h] \in {"open", "closed"} => fetch[h] # "fail"
        /\ hpc[h] = "closed" => close_rel[h] = "ok"

(* ------------------------------------------------------------------ *)
(* Claims about the life of a request                                  *)
(* ------------------------------------------------------------------ *)

\* sd_vdi_read/sd_vdi_write returned because the request's eventfd could not
\* be created
FdFailed(c) == pc[c] = "done" /\ req_state[c] = "none"

\* the callers whose queue_request has notified request_fd
Notifiers ==
    {c \in Callers : pc[c] = "wait" \/ (pc[c] = "done" /\ req_state[c] = "freed")}

\* C16: a read or write whose completion signal could not be created returns
\* SD_RES_SYSTEM_ERROR before any enqueue: the caller never took the list
\* lock, is in no list, was never handed to the dispatcher, request_fd counts
\* only the notifications of the other callers, and a caller without a
\* request is never inside queue_request or suspended.
C16_FdFailureBeforeEnqueue ==
    /\ \A c \in Callers :
          FdFailed(c) =>
              /\ retval[c] = SD_RES_SYSTEM_ERROR
              /\ \A i \in 1..Len(lock_order) : lock_order[i] # c
              /\ \A i \in 1..Len(request_list) : request_list[i] # c
              /\ c \notin inflight \cup tosignal
              /\ fired[c] = 0
              /\ stored[c] = NoRet
    /\ \A c \in Callers : req_state[c] = "none" => pc[c] \in {"idle", "done"}
    /\ notified = Cardinality(Notifiers)
    /\ appended = Cardinality(Notifiers \cup {c \in Callers : pc[c] = "notify"})

\* one call failed for want of a signal while another request was pending
\* and a third had been served
C16_Witness ==
    \E c1, c2, c3 \in Callers :
        /\ FdFailed(c1)
        /\ request_list = <<c2>>
        /\ pc[c3] = "done" /\ req_state[c3] = "freed"

\* the number of times r occurs in the sequence q
Occurrences(q, r) == Cardinality({i \in 1..Len(q) : q[i] = r})

\* how far the caller's request has come: 0 no request, 1 CREATED, 2 QUEUED,
\* 3 IN-FLIGHT, 4 COMPLETED, 5 destroyed
Stage(c) ==
    IF req_state[c] = "freed" THEN 5
    ELSE IF fired[c] > 0 THEN 4
    ELSE IF c \in inflight \cup tosignal THEN 3
    ELSE IF Occurrences(request_list, c) > 0 THEN 2
    ELSE IF req_state[c] = "live" THEN 1
    ELSE 0

\* a request is enqueued at most once, its caller suspended only after the
\* enqueue, and it is destroyed only after the dispatcher has stored the
\* result and fired the signal, which the caller has consumed
RequestLifecycleInv ==
    \A c \in Callers :
        /\ Occurrences(lock_order, c) <= 1
        /\ Occurrences(request_list, c) <= 1
        /\ ~(c \in inflight /\ c \in tosignal)
        /\ Occurrences(request_list, c) > 0 => c \notin inflight \cup tosignal
        /\ pc[c] = "wait" => Occurrences(lock_order, c) = 1
        /\ req_state[c] = "freed" =>
              /\ pc[c] = "done"
              /\ stored[c] # NoRet
              /\ fired[c] = 1
              /\ req_efd[c] = 0
              /\ Stage(c) = 5
        /\ Stage(c) = 4 => stored[c] # NoRet
        /\ ~used_freed

\* no step moves a request backwards or over a stage
RequestStepsForward ==
    \A c \in Callers : Stage(c)' \in {Stage(c), Stage(c) + 1}

\* C17: a request only moves forward through CREATED, QUEUED, IN-FLIGHT,
\* COMPLETED, one stage at a time; it is enqueued once, waited on once, and
\* destroyed only after the dispatcher stored its result and fired its
\* signal, and the dispatcher never touches a destroyed request.
C17_ForwardOnly == []RequestLifecycleInv /\ [][RequestStepsForward]_vars

\* three requests at once: one destroyed, one in flight, one queued
C17_Witness ==
    \E c1, c2, c3 \in Callers :
        /\ Stage(c1) = 5
        /\ Stage(c2) = 3
        /\ Stage(c3) = 2

\* the caller is inside sd_vdi_read/sd_vdi_write with a request
InCall(c) == pc[c] \in {"queue", "locked", "notify", "wait"}

\* a suspended caller resumes only on its own fired signal
ReturnsOnSignal ==
    \A c \in Callers :
        (pc[c] = "wait" /\ pc'[c] # "wait") =>
            /\ pc'[c] = "done"
            /\ fired[c] = 1 /\ req_efd[c] = 1
            /\ stored[c] # NoRet

\* C18: with a dispatcher that keeps serving, every read or write that
\* was started returns; no call returns before its request was completed;
\* and a suspended caller leaves the wait by nothing but the firing of its
\* own signal, so without a completing dispatcher it stays suspended.
C18_EveryCallReturns ==
    /\ \A c \in Callers : InCall(c) ~> (pc[c] = "done")
    /\ [](\A c \in Callers :
             (pc[c] = "done" /\ req_state[c] # "none") => fired[c] = 1)
    /\ [][ReturnsOnSignal]_vars

\* every caller made a call with a request and has returned
C18_Witness ==
    \A c \in Callers : pc[c] = "done" /\ req_state[c] = "freed"

(* ------------------------------------------------------------------ *)
(* Claims about failure and concurrency left implicit                  *)
(* ------------------------------------------------------------------ *)

\* C19: when sd_vdi_open has returned NULL after the cluster had granted it
\* the lock, the cluster no longer records the lock as held by that handle,
\* whatever the release request of the rollback was answered.
C19_NoLeakedLock ==
    \A h \in Handles :
        (hpc[h] = "failed" /\ granted[h]) => lock_holder[h_name[h]] # h

\* the call got past the tag-existence check of sd_vdi_snapshot
PassedTagCheck(c) ==
    /\ Len(call_log[c]) >= 2
    /\ call_log[c][1].op = "GET_VDI_INFO"
    /\ call_log[c][1].res = SD_RES_NO_TAG

\* the heads created since the start
NewHeads == {v \in DOMAIN vdis : v \notin DOMAIN InitVdis}

\* C20: of two sd_vdi_snapshot calls for the same name and tag, at most one
\* gets past the tag-existence check and returns success, and no identity is
\* the COW base of two heads created by snapshots.
C20_OneSnapshotPerTag ==
    /\ \A c1, c2 \in SnapCalls :
          (/\ c1 # c2
           /\ s_name[c1] = s_name[c2] /\ s_tag[c1] = s_tag[c2]
           /\ PassedTagCheck(c1) /\ PassedTagCheck(c2)) =>
              ~(/\ spc[c1] = "done" /\ s_ret[c1] = SD_RES_SUCCESS
                /\ spc[c2] = "done" /\ s_ret[c2] = SD_RES_SUCCESS)
    /\ \A v1, v2 \in NewHeads :
          v1 # v2 => vdis[v1].base # vdis[v2].base

====
